---- MODULE Spec2Model ----
(***************************************************************************)
(* Order ingestion, payment reconciliation and live notification pipeline  *)
(* of the Luxe-Bite server (src/unnamed/part_001).                         *)
(*                                                                         *)
(* Every HTTP handler is a request that occupies a slot and advances from  *)
(* one await to the next; a step of the model is the synchronous code that *)
(* runs when an awaited store or gateway call returns.  In Spec,          *)
(* SpecCreate, SpecStream and SpecLogin a new request is admitted only     *)
(* when no other request is in flight (handlers run alone): Spec takes all *)
(* order routes with a few sample bodies, SpecCreate one submission from   *)
(* the full set of bodies, SpecStream the stream with its subscribers      *)
(* coming and going, SpecLogin the two login routes and the clock.  In     *)
(* SpecConc (order routes) and SpecLoginConc (POST /api/auth/login) a      *)
(* request is admitted while another is suspended at an await, so the      *)
(* steps of two handlers interleave.                                       *)
(*                                                                         *)
(* Order requests carry a valid token (the auth middleware has set         *)
(* req.user); the rate limiters, which only refuse requests, are outside   *)
(* the model.                                                              *)
(* A store or gateway call that throws is an input of the step that awaits *)
(* it.  res.write of a string to a connection whose client is gone does    *)
(* not throw: the frame is written and never received.                     *)
(*                                                                         *)
(* Numbers are JavaScript numbers scaled by 1000 (80.00 is 80000), so that *)
(* Math.round(total * 100) is a real rounding.  Strings are sequences of   *)
(* one-character strings.                                                  *)
(***************************************************************************)
EXTENDS Integers, Sequences, FiniteSets, TLC

\* ---------------------------------------------------------------- bounds
MaxRequests == 3
MaxCreates == 1
MaxOrders == 2
MaxInflight == 2
MaxChannels == 2
MaxLogins == 6
MaxLongTicks == 1
MaxShortTicks == 1

\* ------------------------------------------------------- program constants
MinorPerUnit == 100
Scale == MinorPerUnit * 10
NameMaxLength == 100
PhoneMaxLength == 20
AddressMaxLength == 500
ReferenceMaxLength == 100
ItemNameMaxLength == 200
MinNameLength == 2
MinPhoneLength == 10
MinAddressLength == 5
MaxItems == 50
MaxAmount == 100000
MaxDeliveryFee == 10000
MinItemQuantity == 1
MaxItemQuantity == 100
MaxItemPrice == 10000
MAX_LOGIN_ATTEMPTS == 5
LOGIN_BLOCK_DURATION_MS == 15 * 60000
MinPasswordLength == 6

\* null (sanitizeNumber of a non-finite number); sanitized numbers are >= 0
NULL == 0 - 1

\* ------------------------------------------------------------ JS values
JsStr(s) == [isString |-> TRUE, chars |-> s]
NotAString == [isString |-> FALSE, chars |-> <<>>]
JsNum(v) == [finite |-> TRUE, v |-> v]
NotANumber == [finite |-> FALSE, v |-> 0]
Rep(c, n) == [i \in 1..n |-> c]

SetMin(S) == CHOOSE x \in S : \A y \in S : x <= y
SetMax(S) == CHOOSE x \in S : \A y \in S : x >= y
NumMin(a, b) == IF a <= b THEN a ELSE b
NumMax(a, b) == IF a >= b THEN a ELSE b

\* String.prototype.trim on a sequence of characters
Trim(s) ==
  LET keep == {i \in 1..Len(s) : s[i] # " "}
  IN IF keep = {} THEN <<>> ELSE SubSeq(s, SetMin(keep), SetMax(keep))

NotAngle(c) == c \notin {"<", ">"}

\* sanitizeString(str, maxLength): trim, slice(0, maxLength), strip < and >
sanitizeString(str, maxLength) ==
  IF ~str.isString THEN <<>>
  ELSE LET t == Trim(str.chars)
           sl == SubSeq(t, 1, NumMin(Len(t), maxLength))
       IN SelectSeq(sl, NotAngle)

\* sanitizeNumber(num, min, max); min and max are given in whole units
sanitizeNumber(num, min, max) ==
  IF ~num.finite THEN NULL
  ELSE NumMax(min * Scale, NumMin(max * Scale, num.v))

\* !x for a sanitized number: null and 0 are falsy
Falsy(x) == x = NULL \/ x = 0
\* x <= 0 in JavaScript: null compares as 0
LeqZero(x) == x = NULL \/ x <= 0

\* Math.round(x * 100) for a non-negative scaled number
RoundMinor(x) == (x + 5) \div 10

allowedPaymentMethods == {"mtn", "vodafone", "airteltigo", "pay_on_delivery", "paystack"}
allowed == {"pending", "preparing", "ready", "out_for_delivery", "delivered", "cancelled"}

\* ------------------------------------------------------------- sample data
Users == {"alice", "staff"}
\* req.user.roles.includes("admin")
IsAdmin(u) == u = "staff"

ValidName == <<"A", "m", "a">>
ValidPhone == Rep("0", 10)
ValidAddress == Rep("s", 5)
GoodItem == [name |-> JsStr(<<"r", "i", "c", "e">>), quantity |-> JsNum(2 * Scale), price |-> JsNum(35 * Scale)]
ZeroQtyItem == [GoodItem EXCEPT !.quantity = JsNum(0)]
NoQtyItem == [GoodItem EXCEPT !.quantity = NotANumber]
HalfQtyItem == [GoodItem EXCEPT !.quantity = JsNum(1500)]
NoNameItem == [GoodItem EXCEPT !.name = JsStr(<<" ">>)]
FreeItem == [GoodItem EXCEPT !.price = JsNum(0)]
NoPriceItem == [GoodItem EXCEPT !.price = NotANumber]

BaseBody ==
  [customer_name |-> JsStr(ValidName),
   customer_phone |-> JsStr(ValidPhone),
   delivery_address |-> JsStr(ValidAddress),
   order_type |-> "delivery",
   subtotal |-> JsNum(70 * Scale),
   delivery_fee |-> JsNum(10 * Scale),
   total |-> JsNum(80 * Scale),
   payment_method |-> "mtn",
   paystack_reference |-> NotAString,
   items |-> <<GoodItem>>]

NameSamples ==
  {JsStr(<<"A">>), JsStr(<<" ", "A", " ">>), JsStr(<<"A", "<">>), JsStr(<<>>), NotAString,
   JsStr(<<" ", "A", "l", " ">>), JsStr(Rep("x", NameMaxLength + 1))}
PhoneSamples ==
  {JsStr(Rep("0", 9)), JsStr(<<" ">> \o Rep("0", 9) \o <<" ">>), NotAString}
AddressSamples == {JsStr(Rep("s", 4)), JsStr(<<>>), NotAString}
AmountSamples ==
  {JsNum(0), JsNum(0 - 5 * Scale), NotANumber, JsNum(80 * Scale + 4), JsNum(75 * Scale),
   JsNum(200000 * Scale)}
ItemListSamples ==
  {<<>>, Rep(GoodItem, MaxItems + 1),
   <<ZeroQtyItem, GoodItem>>, <<GoodItem, ZeroQtyItem>>, <<NoQtyItem, GoodItem>>,
   <<HalfQtyItem, GoodItem>>, <<NoNameItem, FreeItem, NoPriceItem>>, <<FreeItem, GoodItem>>,
   <<ZeroQtyItem>>}
ReferenceSamples == {NotAString, JsStr(<<>>), JsStr(<<" ">>), JsStr(<<"r", "1">>), JsStr(<<"r", "2">>)}

\* request bodies: the base submission with one field (or the payment pair) varied
Bodies ==
  {BaseBody}
  \cup {[BaseBody EXCEPT !.customer_name = n] : n \in NameSamples}
  \cup {[BaseBody EXCEPT !.customer_phone = p] : p \in PhoneSamples}
  \cup {[BaseBody EXCEPT !.delivery_address = a] : a \in AddressSamples}
  \cup {[BaseBody EXCEPT !.order_type = t, !.delivery_address = JsStr(<<>>)] :
          t \in {"pickup", "dine_in"}}
  \cup {[BaseBody EXCEPT !.subtotal = x] : x \in AmountSamples}
  \cup {[BaseBody EXCEPT !.total = x] : x \in AmountSamples}
  \cup {[BaseBody EXCEPT !.delivery_fee = NotANumber]}
  \cup {[BaseBody EXCEPT !.items = l] : l \in ItemListSamples}
  \cup {[BaseBody EXCEPT !.payment_method = m] : m \in allowedPaymentMethods \cup {"cash"}}
  \cup {[BaseBody EXCEPT !.payment_method = "paystack", !.paystack_reference = r] :
          r \in ReferenceSamples}
  \cup {[BaseBody EXCEPT !.payment_method = "paystack", !.paystack_reference = JsStr(<<"r", "1">>),
                         !.total = x] : x \in AmountSamples}
  \cup {[BaseBody EXCEPT !.payment_method = "paystack", !.paystack_reference = JsStr(<<"r", "1">>),
                         !.items = <<ZeroQtyItem, GoodItem>>]}

\* the submissions used where several requests follow one another
FewBodies ==
  {BaseBody,
   [BaseBody EXCEPT !.customer_name = JsStr(<<"A">>)],
   [BaseBody EXCEPT !.payment_method = "pay_on_delivery", !.items = <<ZeroQtyItem, GoodItem>>],
   [BaseBody EXCEPT !.payment_method = "paystack", !.paystack_reference = JsStr(<<"r", "1">>),
                    !.total = JsNum(80 * Scale + 4)]}

\* replies of the gateway's verify endpoint: the fetch rejects (transport), or it
\* answers with res.ok, data.status, data.data.status and data.data.amount
NoReply == [transport |-> FALSE, resOk |-> FALSE, status |-> FALSE, txStatus |-> "none",
            amountIsNumber |-> FALSE, amount |-> 0]
GatewayReplies ==
  {NoReply,
   [NoReply EXCEPT !.transport = TRUE],
   [NoReply EXCEPT !.transport = TRUE, !.resOk = TRUE]}
  \cup {[transport |-> TRUE, resOk |-> TRUE, status |-> TRUE, txStatus |-> t,
         amountIsNumber |-> TRUE, amount |-> a] :
          t \in {"success", "failed"}, a \in {8000, 7500, 100000 * MinorPerUnit}}
  \cup {[transport |-> TRUE, resOk |-> TRUE, status |-> TRUE, txStatus |-> t,
         amountIsNumber |-> FALSE, amount |-> 0] : t \in {"success", "abandoned"}}

Slots == 1..MaxInflight
Channels == 1..MaxChannels
OrderIds == 1..MaxOrders
StatusInputs == allowed \cup {"refunded"}

\* ------------------------------------------- login attempts (lines 307-331)
\* a Map record, or the default of recordFailure when the key has none
NoRecord == [count |-> 0, blockedUntil |-> 0]

\* getKey(email, ip): `${email}|${ip || "unknown"}`
getKey(email, ip) == <<email, IF ip = "undefined" THEN "unknown" ELSE ip>>

ToLower(c) == IF c = "A" THEN "a" ELSE IF c = "C" THEN "c" ELSE c

\* normalizeEmail: String(email || "").trim().toLowerCase()
normalizeEmail(email) ==
  LET t == IF email.isString THEN Trim(email.chars) ELSE <<>>
  IN [i \in 1..Len(t) |-> ToLower(t[i])]

\* mutant: the lock is over one millisecond early
isBlockedEarly(attempts, email, ip, t) ==
  LET key == getKey(email, ip) IN
  /\ key \in DOMAIN attempts
  /\ attempts[key].blockedUntil # 0
  /\ attempts[key].blockedUntil > t + 1

\* isBlocked(email, ip) at Date.now() = t
isBlocked(attempts, email, ip, t) ==
  LET key == getKey(email, ip) IN
  /\ key \in DOMAIN attempts
  /\ attempts[key].blockedUntil # 0
  /\ attempts[key].blockedUntil > t

\* mutant: the count is kept when the lock is set
recordFailureKeepCount(attempts, email, ip, t) ==
  LET key == getKey(email, ip)
      rec == IF key \in DOMAIN attempts THEN attempts[key] ELSE NoRecord
      count == rec.count + 1
      new == IF count >= MAX_LOGIN_ATTEMPTS
             THEN [count |-> count, blockedUntil |-> t + LOGIN_BLOCK_DURATION_MS]
             ELSE [rec EXCEPT !.count = count]
  IN [k \in DOMAIN attempts \cup {key} |-> IF k = key THEN new ELSE attempts[k]]

\* recordFailure(email, ip) at Date.now() = t: the Map after the call
recordFailure(attempts, email, ip, t) ==
  LET key == getKey(email, ip)
      rec == IF key \in DOMAIN attempts THEN attempts[key] ELSE NoRecord
      count == rec.count + 1
      new == IF count >= MAX_LOGIN_ATTEMPTS
             THEN [count |-> 0, blockedUntil |-> t + LOGIN_BLOCK_DURATION_MS]
             ELSE [rec EXCEPT !.count = count]
  IN [k \in DOMAIN attempts \cup {key} |-> IF k = key THEN new ELSE attempts[k]]

\* mutant: the record is reset but stays in the Map with its lock
clearFailuresCountOnly(attempts, email, ip) ==
  LET key == getKey(email, ip)
  IN [k \in DOMAIN attempts |-> IF k = key THEN [attempts[k] EXCEPT !.count = 0] ELSE attempts[k]]

\* clearFailures(email, ip): loginAttempts.delete(key)
clearFailures(attempts, email, ip) ==
  LET key == getKey(email, ip)
  IN [k \in DOMAIN attempts \ {key} |-> attempts[k]]

\* loginSchema: email is a string of the shape of an address (one @, inside, no
\* blank), password a string of at least 6 characters
IsEmail(chars) ==
  LET at == {i \in 1..Len(chars) : chars[i] = "@"} IN
  /\ Cardinality(at) = 1
  /\ \A i \in at : 1 < i /\ i < Len(chars)
  /\ \A i \in 1..Len(chars) : chars[i] # " "
loginSchema(body) ==
  /\ body.email.isString /\ IsEmail(body.email.chars)
  /\ body.password.isString /\ Len(body.password.chars) >= MinPasswordLength

\* public.users (email -> password) and the admin account of the configuration
users == (<<"a", "@", "b">> :> Rep("p", MinPasswordLength))
ADMIN_EMAIL == JsStr(<<"C", "@", "b">>)
ADMIN_PASSWORD == Rep("s", MinPasswordLength)

EmailInputs ==
  {JsStr(<<"a", "@", "b">>), JsStr(<<"A", "@", "b">>), JsStr(<<"C", "@", "b">>), JsStr(<<"a">>)}
PasswordInputs == {Rep("p", MinPasswordLength), Rep("s", MinPasswordLength),
                   Rep("p", MinPasswordLength - 1)}
IpInputs == {"1.2.3.4"}
AllKeys == {getKey(normalizeEmail(e), ip) : e \in EmailInputs, ip \in IpInputs}
Instants == {i * (LOGIN_BLOCK_DURATION_MS - 1) + j : i \in 0..MaxLongTicks, j \in 0..MaxShortTicks}

IdleLogin ==
  [kind |-> "none", pc |-> "idle", email |-> <<>>, ip |-> "undefined", password |-> <<>>,
   resp |-> 0, lookedUp |-> FALSE, compared |-> FALSE, wasLocked |-> FALSE,
   lockedAtCompare |-> FALSE]

VARIABLES
  orders,               \* table public.orders: id -> row
  order_items,          \* table public.order_items, rows in insertion order
  admin_notifications,  \* table public.admin_notifications, rows in insertion order
  sseClients,           \* the Set of registered stream responses
  channel,              \* each stream connection: "unused", "open", "lost" or "closed"
  wrote,                \* per connection, the frames passed to res.write
  recv,                 \* per connection, the frames the client received
  published,            \* every event passed to broadcast, in order
  joinedAt,             \* per connection, Len(published) when it was registered
  leftAt,               \* per connection, Len(published) when its client went away
  gatewayCalls,         \* references sent to the gateway's verify endpoint, in order
  paystackConfigured,   \* config.PAYSTACK_SECRET_KEY is set
  reqs,                 \* per slot, the request being handled (or the last one handled)
  nreq,                 \* requests admitted so far
  nextOrderId,          \* next fresh order id (randomUUID)
  last,                 \* the slot whose request took the latest step; 0 after a
                        \* connection event
  loginAttempts,        \* the Map of failed-login records: key -> [count, blockedUntil]
  now,                  \* Date.now(), in milliseconds since the server started
  adminConfigured,      \* config.ADMIN_EMAIL and config.ADMIN_PASSWORD are set
  logins,               \* per slot, the login request being handled
  nlogin,               \* login requests admitted so far
  fails,                \* per key, the times of its failed attempts since its last
                        \* successful login
  prevAttempts,         \* loginAttempts before the latest step of a login request
  lastLogin,            \* the slot whose login request took the latest step; 0 after
                        \* a clock tick
  compares              \* per key, the password comparisons performed since the key
                        \* last had no record or an expired lockout

store == <<orders, order_items, admin_notifications>>
hub == <<sseClients, channel, wrote, recv, published, joinedAt, leftAt>>
shop == <<orders, order_items, admin_notifications, sseClients, channel, wrote, recv,
          published, joinedAt, leftAt, gatewayCalls, paystackConfigured, reqs, nreq, nextOrderId,
          last>>
auth ==
  <<loginAttempts, now, adminConfigured, logins, nlogin, fails, prevAttempts, lastLogin, compares>>
vars == <<shop, auth>>

NoOrder ==
  [id |-> 0, user_id |-> "none", customer_name |-> <<>>, customer_phone |-> <<>>,
   delivery_address |-> <<>>, order_type |-> "none", status |-> "none", subtotal |-> NULL,
   delivery_fee |-> NULL, total |-> NULL, payment_method |-> "none", payment_status |-> "none"]

\* what a handler can change, recorded when its request is admitted
Snapshot ==
  [orders |-> orders, order_items |-> order_items, admin_notifications |-> admin_notifications,
   wrote |-> wrote, gatewayCalls |-> gatewayCalls]

IdleReq ==
  [kind |-> "none", pc |-> "idle", user |-> "none", id |-> 0, body |-> BaseBody, status |-> "none",
   resp |-> 0, found |-> FALSE, row |-> NoOrder, idx |-> 0, payment_status |-> "none",
   reply |-> NoReply, committed |-> FALSE, failed |-> FALSE, cause |-> "none", was |-> "none",
   pre |-> [orders |-> <<>>, order_items |-> <<>>, admin_notifications |-> <<>>,
            wrote |-> [c \in Channels |-> <<>>], gatewayCalls |-> <<>>]]

InitShop ==
  /\ orders = <<>>
  /\ order_items = <<>>
  /\ admin_notifications = <<>>
  /\ sseClients = {}
  /\ channel = [c \in Channels |-> "unused"]
  /\ wrote = [c \in Channels |-> <<>>]
  /\ recv = [c \in Channels |-> <<>>]
  /\ published = <<>>
  /\ joinedAt = [c \in Channels |-> 0]
  /\ leftAt = [c \in Channels |-> 0]
  /\ gatewayCalls = <<>>
  /\ reqs = [s \in Slots |-> IdleReq]
  /\ nreq = 0
  /\ nextOrderId = 1
  /\ last = 1

InitAuth ==
  /\ loginAttempts = <<>>
  /\ now = 0
  /\ logins = [s \in Slots |-> IdleLogin]
  /\ nlogin = 0
  /\ fails = [k \in AllKeys |-> <<>>]
  /\ compares = [k \in AllKeys |-> 0]
  /\ prevAttempts = <<>>
  /\ lastLogin = 0

\* the server after start-up; the order and stream specifications run with the
\* admin account configured
Init == InitShop /\ InitAuth /\ paystackConfigured \in BOOLEAN /\ adminConfigured = TRUE

InFlight(s) == reqs[s].pc \notin {"idle", "done"}
FreeSlots == {s \in Slots : ~InFlight(s)}
Quiet == \A t \in Slots : ~InFlight(t)

\* a request is admitted into the lowest free slot; when serial, only while no
\* other request is in flight
Admit(s, serial, limit) ==
  /\ nreq < limit
  /\ FreeSlots # {}
  /\ s = SetMin(FreeSlots)
  /\ serial => Quiet

NewReq(kind, pc, user, id, body, status) ==
  [IdleReq EXCEPT !.kind = kind, !.pc = pc, !.user = user, !.id = id, !.body = body,
                  !.status = status, !.pre = Snapshot]

\* res.status(code).json(...): the first response sent is the one the client gets
Finish(r, code) == [r EXCEPT !.pc = "done", !.resp = IF r.resp = 0 THEN code ELSE r.resp]
\* an awaited store or gateway call threw and the handler's catch answered; cause
\* tells a gateway call from a store call: "config" when paystackFetch threw for the
\* missing key, "transport" when its fetch rejected
Fail(r, code) == Finish([r EXCEPT !.failed = TRUE], code)

\* ---------------------------------------------------------- broadcast hub
Frame(type, order_id, status) ==
  [type |-> type, order_id |-> order_id, status |-> status, customer_name |-> <<>>,
   customer_phone |-> <<>>, total |-> NULL]

\* mutant: a response that was removed from the set is still written to
WriteAllEver(log, clients, events) ==
  [c \in Channels |-> IF log[c] # <<>> THEN log[c] \o events ELSE log[c]]

\* broadcast(event): res.write(payload) for every registered response; a write to
\* a lost connection does not throw and its frame is never received
WriteAll(log, clients, events) ==
  [c \in Channels |-> IF c \in clients THEN log[c] \o events ELSE log[c]]

\* ------------------------------------------------------- POST /api/orders
\* the sanitized fields of a submission (lines 856-871)
Draft(b) ==
  [customer_name |-> sanitizeString(b.customer_name, NameMaxLength),
   customer_phone |-> sanitizeString(b.customer_phone, PhoneMaxLength),
   delivery_address |-> sanitizeString(b.delivery_address, AddressMaxLength),
   order_type |-> IF b.order_type \in {"delivery", "pickup"} THEN b.order_type ELSE "null",
   subtotal |-> sanitizeNumber(b.subtotal, 0, MaxAmount),
   delivery_fee |-> sanitizeNumber(b.delivery_fee, 0, MaxDeliveryFee),
   total |-> sanitizeNumber(b.total, 0, MaxAmount),
   payment_method |-> b.payment_method,
   paystack_reference |-> sanitizeString(b.paystack_reference, ReferenceMaxLength),
   items |-> b.items]

\* mutant: the reference of a gateway submission is not required
ValidationErrorNoReference(b) ==
  LET d == Draft(b) IN
  IF Len(d.customer_name) < MinNameLength THEN "Valid customer name is required"
  ELSE IF Len(d.customer_phone) < MinPhoneLength THEN "Valid phone number is required"
  ELSE IF d.order_type = "null" THEN "Invalid order type"
  ELSE IF d.order_type = "delivery" /\ Len(d.delivery_address) < MinAddressLength
    THEN "Delivery address is required"
  ELSE IF Falsy(d.subtotal) \/ d.subtotal <= 0 THEN "Invalid subtotal"
  ELSE IF Falsy(d.total) \/ d.total <= 0 THEN "Invalid total"
  ELSE IF Len(d.items) = 0 THEN "Order must contain at least one item"
  ELSE IF Len(d.items) > MaxItems THEN "Order cannot contain more than 50 items"
  ELSE IF d.payment_method \notin allowedPaymentMethods THEN "Invalid payment method"
  ELSE "ok"

\* the validation chain (lines 874-908): the first failing check, or "ok"
ValidationError(b) ==
  LET d == Draft(b) IN
  IF Len(d.customer_name) < MinNameLength THEN "Valid customer name is required"
  ELSE IF Len(d.customer_phone) < MinPhoneLength THEN "Valid phone number is required"
  ELSE IF d.order_type = "null" THEN "Invalid order type"
  ELSE IF d.order_type = "delivery" /\ Len(d.delivery_address) < MinAddressLength
    THEN "Delivery address is required"
  ELSE IF Falsy(d.subtotal) \/ d.subtotal <= 0 THEN "Invalid subtotal"
  ELSE IF Falsy(d.total) \/ d.total <= 0 THEN "Invalid total"
  ELSE IF Len(d.items) = 0 THEN "Order must contain at least one item"
  ELSE IF Len(d.items) > MaxItems THEN "Order cannot contain more than 50 items"
  ELSE IF d.payment_method \notin allowedPaymentMethods THEN "Invalid payment method"
  ELSE IF d.payment_method = "paystack" /\ Len(d.paystack_reference) = 0
    THEN "Payment reference required"
  ELSE "ok"

\* verifyPaystackReference(reference) on the gateway's reply
verifyPaystackReference(reference, g) ==
  IF ~g.resOk \/ ~g.status THEN [ok |-> FALSE, amount |-> NULL]
  ELSE [ok |-> g.txStatus = "success",
        amount |-> IF g.amountIsNumber THEN g.amount ELSE NULL]

\* the amount check of lines 914-917: TRUE when the order is rejected
AmountMismatch(total, verified) ==
  LET expectedMinor == RoundMinor(total)
  IN verified.amount # NULL /\ verified.amount # expectedMinor

\* the sanitized fields of one item (lines 937-940)
ItemDraft(it) ==
  [item_name |-> sanitizeString(it.name, ItemNameMaxLength),
   quantity |-> sanitizeNumber(it.quantity, MinItemQuantity, MaxItemQuantity),
   unit_price |-> sanitizeNumber(it.price, 0, MaxItemPrice)]

\* line 942: the item is skipped
ItemInvalid(it) ==
  LET d == ItemDraft(it)
  IN Len(d.item_name) = 0 \/ LeqZero(d.quantity) \/ Falsy(d.unit_price) \/ d.unit_price <= 0

\* order_items.quantity is an INTEGER column: a fractional quantity is refused
ItemInsertOk(it, dbOk) == dbOk /\ ItemDraft(it).quantity % Scale = 0

\* mutant: every method but pay_on_delivery is verified with the gateway
UsesGatewayOnline(payment_method) == payment_method # "pay_on_delivery"

\* line 905
UsesGateway(payment_method) == payment_method = "paystack"

CreateBegin(s, serial, limit, bodies) ==
  \E u \in Users, b \in bodies :
    /\ Admit(s, serial, limit)
    /\ nextOrderId + Cardinality({t \in Slots : InFlight(t) /\ reqs[t].kind = "create"}) <= MaxOrders
    /\ reqs' = [reqs EXCEPT ![s] = NewReq("create", "ensure", u, 0, b, "none")]
    /\ nreq' = nreq + 1
    /\ last' = s
    /\ UNCHANGED <<store, hub, gatewayCalls, paystackConfigured, nextOrderId, auth>>

\* the two CREATE TABLE IF NOT EXISTS statements returned (lines 817-853); then
\* validation and, for the gateway method, the call of the verify endpoint
CreateValidate(s) ==
  \E dbOk \in BOOLEAN :
    LET r == reqs[s]
        d == Draft(r.body)
        err == ValidationError(r.body)
    IN
    /\ r.kind = "create" /\ r.pc = "ensure"
    /\ last' = s
    /\ IF ~dbOk THEN
         /\ reqs' = [reqs EXCEPT ![s] = Fail(r, 500)]
         /\ UNCHANGED gatewayCalls
       ELSE IF err # "ok" THEN
         /\ reqs' = [reqs EXCEPT ![s] = Finish(r, 400)]
         /\ UNCHANGED gatewayCalls
       ELSE IF UsesGateway(d.payment_method) THEN
         IF ~paystackConfigured THEN
           \* paystackFetch throws; the handler's catch answers 500
           /\ reqs' = [reqs EXCEPT ![s] = Fail([r EXCEPT !.cause = "config"], 500)]
           /\ UNCHANGED gatewayCalls
         ELSE
           /\ reqs' = [reqs EXCEPT ![s].pc = "verify"]
           /\ gatewayCalls' = Append(gatewayCalls, d.paystack_reference)
       ELSE
         /\ reqs' = [reqs EXCEPT ![s].pc = "insert", ![s].payment_status = "pending"]
         /\ UNCHANGED gatewayCalls
    /\ UNCHANGED <<store, hub, paystackConfigured, nreq, nextOrderId, auth>>

\* the gateway's verify call returned (lines 909-919)
CreateVerify(s) ==
  \E g \in GatewayReplies :
    LET r == reqs[s]
        d == Draft(r.body)
        verified == verifyPaystackReference(d.paystack_reference, g)
    IN
    /\ r.kind = "create" /\ r.pc = "verify"
    /\ last' = s
    /\ reqs' = [reqs EXCEPT ![s] =
         IF ~g.transport THEN Fail([r EXCEPT !.cause = "transport"], 500)
         ELSE IF ~verified.ok THEN Finish([r EXCEPT !.reply = g], 402)
         ELSE IF AmountMismatch(d.total, verified) THEN Finish([r EXCEPT !.reply = g], 400)
         ELSE [r EXCEPT !.pc = "insert", !.payment_status = "paid", !.reply = g]]
    /\ UNCHANGED <<store, hub, gatewayCalls, paystackConfigured, nreq, nextOrderId, auth>>

\* mutant: the insert writes the initial payment_status, not the verified one
OrderRowUnpaid(r, id) ==
  LET d == Draft(r.body) IN
  [id |-> id, user_id |-> r.user, customer_name |-> d.customer_name,
   customer_phone |-> d.customer_phone, delivery_address |-> d.delivery_address,
   order_type |-> d.order_type, status |-> "pending", subtotal |-> d.subtotal,
   delivery_fee |-> d.delivery_fee, total |-> d.total, payment_method |-> d.payment_method,
   payment_status |-> "pending"]

\* the row written by INSERT INTO public.orders (lines 923-927)
OrderRow(r, id) ==
  LET d == Draft(r.body) IN
  [id |-> id, user_id |-> r.user, customer_name |-> d.customer_name,
   customer_phone |-> d.customer_phone, delivery_address |-> d.delivery_address,
   order_type |-> d.order_type, status |-> "pending", subtotal |-> d.subtotal,
   delivery_fee |-> d.delivery_fee, total |-> d.total, payment_method |-> d.payment_method,
   payment_status |-> r.payment_status]

\* the INSERT INTO public.orders returned (lines 921-932)
CreateInsert(s) ==
  \E dbOk \in BOOLEAN :
    LET r == reqs[s] IN
    /\ r.kind = "create" /\ r.pc = "insert"
    /\ last' = s
    /\ IF dbOk THEN
         /\ orders' = orders @@ (nextOrderId :> OrderRow(r, nextOrderId))
         /\ nextOrderId' = nextOrderId + 1
         /\ reqs' = [reqs EXCEPT ![s].pc = "items", ![s].idx = 1, ![s].id = nextOrderId,
                                 ![s].committed = TRUE]
       ELSE
         /\ reqs' = [reqs EXCEPT ![s] = Fail(r, 500)]
         /\ UNCHANGED <<orders, nextOrderId>>
    /\ UNCHANGED <<order_items, admin_notifications, hub, gatewayCalls, paystackConfigured, nreq, auth>>

\* one turn of the item loop (lines 936-957): an invalid item is skipped, a valid one
\* inserted; a failed insert leaves the loop through the catch of line 953.  When the
\* loop is over the handler answers 201 and broadcasts order_created (lines 959-960).
\* mutant: a failed item insert is reported as a failed request
ItemsResponseStrict(failed) == IF failed THEN 500 ELSE 201

\* line 959: the answer once the loop is over, whether or not an insert failed
ItemsResponse(failed) == 201

CreateItem(s) ==
  \E dbOk \in BOOLEAN :
    LET r == reqs[s]
        it == r.body.items[r.idx]
        d == ItemDraft(it)
        skipped == ItemInvalid(it)
        failed == ~skipped /\ ~ItemInsertOk(it, dbOk)
        over == failed \/ r.idx = Len(r.body.items)
    IN
    /\ r.kind = "create" /\ r.pc = "items"
    /\ skipped => dbOk
    /\ last' = s
    /\ order_items' =
         IF skipped \/ failed THEN order_items
         ELSE Append(order_items, [order_id |-> r.id, item_name |-> d.item_name,
                                   quantity |-> d.quantity, unit_price |-> d.unit_price])
    /\ reqs' = [reqs EXCEPT ![s] =
         IF over THEN Finish([r EXCEPT !.failed = failed], ItemsResponse(failed))
         ELSE [r EXCEPT !.idx = r.idx + 1]]
    /\ wrote' = IF over THEN WriteAll(wrote, sseClients, <<Frame("order_created", r.id, "none")>>)
                ELSE wrote
    /\ recv' = IF over
               THEN WriteAll(recv, {c \in sseClients : channel[c] = "open"},
                             <<Frame("order_created", r.id, "none")>>)
               ELSE recv
    /\ published' = IF over THEN Append(published, Frame("order_created", r.id, "none"))
                    ELSE published
    /\ UNCHANGED <<orders, admin_notifications, sseClients, channel, joinedAt, leftAt,
                   gatewayCalls, paystackConfigured, nreq, nextOrderId, auth>>

\* ------------------------------------------ admin notifications (lines 259-275)
CancelledPayload(id, row) ==
  [type |-> "order_cancelled", order_id |-> id, status |-> "none",
   customer_name |-> row.customer_name, customer_phone |-> row.customer_phone,
   total |-> row.total]

\* mutant: the total is taken for a non-number and stored as null
NotificationRowNoTotal(payload) ==
  [type |-> payload.type, order_id |-> payload.order_id,
   customer_name |-> payload.customer_name, customer_phone |-> payload.customer_phone,
   total |-> NULL, read |-> FALSE]

\* the row createAdminNotification inserts; read defaults to false
NotificationRow(payload) ==
  [type |-> payload.type, order_id |-> payload.order_id,
   customer_name |-> payload.customer_name, customer_phone |-> payload.customer_phone,
   total |-> payload.total, read |-> FALSE]

\* mutant: the notification is not written when a write to a subscriber was lost
NotifySkipsOnLost(s) ==
  \E dbOk \in BOOLEAN :
    LET r == reqs[s]
        lost == \E c \in sseClients : channel[c] = "lost"
    IN
    /\ r.pc = "notify"
    /\ last' = s
    /\ admin_notifications' =
         IF dbOk /\ ~lost
         THEN Append(admin_notifications, NotificationRow(CancelledPayload(r.id, r.row)))
         ELSE admin_notifications
    /\ reqs' = [reqs EXCEPT ![s].pc = "done", ![s].failed = ~dbOk /\ ~lost]
    /\ UNCHANGED <<orders, order_items, hub, gatewayCalls, paystackConfigured, nreq, nextOrderId, auth>>

\* the INSERT of createAdminNotification returned; a failure is caught and logged
Notify(s) ==
  \E dbOk \in BOOLEAN :
    LET r == reqs[s] IN
    /\ r.pc = "notify"
    /\ last' = s
    /\ admin_notifications' =
         IF dbOk THEN Append(admin_notifications, NotificationRow(CancelledPayload(r.id, r.row)))
         ELSE admin_notifications
    /\ reqs' = [reqs EXCEPT ![s].pc = "done", ![s].failed = ~dbOk]
    /\ UNCHANGED <<orders, order_items, hub, gatewayCalls, paystackConfigured, nreq, nextOrderId, auth>>

\* the stored status of an order at the moment a request writes it ("none" when
\* the row is not there)
StoredStatus(tbl, id) == IF id \in DOMAIN tbl THEN tbl[id].status ELSE "none"

\* UPDATE public.orders SET status = ... WHERE id = ...
SetStatus(tbl, id, status) ==
  IF id \in DOMAIN tbl THEN [tbl EXCEPT ![id].status = status] ELSE tbl

\* mutant: order_cancelled is published before order_status_updated
StatusFramesCancelFirst(id, status, row, withCancel) ==
  (IF withCancel THEN <<CancelledPayload(id, row)>> ELSE <<>>)
  \o <<Frame("order_status_updated", id, status)>>

\* the frames written after a status write (lines 1010-1019, 1051-1059)
StatusFrames(id, status, row, withCancel) ==
  <<Frame("order_status_updated", id, status)>>
  \o (IF withCancel THEN <<CancelledPayload(id, row)>> ELSE <<>>)

\* ------------------------------------------- PATCH /api/orders/:id/status
\* line 993: the only check of the target status
StatusAccepted(current, status) == status \in allowed

StatusBegin(s, serial) ==
  \E u \in Users, id \in OrderIds, st \in StatusInputs :
    LET cur == IF id \in DOMAIN orders THEN orders[id].status ELSE "none"
        r == NewReq("status", "begin", u, id, BaseBody, st)
    IN
    /\ Admit(s, serial, MaxRequests)
    /\ nreq' = nreq + 1
    /\ last' = s
    /\ reqs' = [reqs EXCEPT ![s] =
         IF ~IsAdmin(u) THEN Finish(r, 403)
         ELSE IF ~StatusAccepted(cur, st) THEN Finish(r, 400)
         ELSE IF st = "cancelled" THEN [r EXCEPT !.pc = "read"]
         ELSE [r EXCEPT !.pc = "update"]]
    /\ UNCHANGED <<store, hub, gatewayCalls, paystackConfigured, nextOrderId, auth>>

\* mutant: a missing order does not stop the cancellation
ReadBeforeCancelLenient(found) == 0

\* lines 1003-1005: the response when the order to cancel is missing, or 0
ReadBeforeCancel(found) == IF ~found THEN 404 ELSE 0

\* the SELECT of lines 998-1005 returned
StatusRead(s) ==
  \E dbOk \in BOOLEAN :
    LET r == reqs[s]
        found == r.id \in DOMAIN orders
        row == IF found THEN orders[r.id] ELSE NoOrder
        code == ReadBeforeCancel(found)
    IN
    /\ r.kind = "status" /\ r.pc = "read"
    /\ last' = s
    /\ reqs' = [reqs EXCEPT ![s] =
         IF ~dbOk THEN Fail(r, 500)
         ELSE IF code # 0 THEN Finish(r, code)
         ELSE [r EXCEPT !.pc = "update", !.found = found, !.row = row]]
    /\ UNCHANGED <<store, hub, gatewayCalls, paystackConfigured, nreq, nextOrderId, auth>>

\* the UPDATE of lines 1006-1008 returned; then the response and the broadcasts
StatusUpdate(s) ==
  \E dbOk \in BOOLEAN :
    LET r == reqs[s]
        cancel == r.status = "cancelled" /\ r.found
        frames == StatusFrames(r.id, r.status, r.row, cancel)
    IN
    /\ r.kind = "status" /\ r.pc = "update"
    /\ last' = s
    /\ IF dbOk THEN
         /\ orders' = SetStatus(orders, r.id, r.status)
         /\ reqs' = [reqs EXCEPT ![s] =
              IF cancel THEN [r EXCEPT !.pc = "notify", !.resp = 200, !.committed = TRUE,
                                       !.was = StoredStatus(orders, r.id)]
              ELSE Finish([r EXCEPT !.committed = TRUE, !.was = StoredStatus(orders, r.id)], 200)]
         /\ wrote' = WriteAll(wrote, sseClients, frames)
         /\ recv' = WriteAll(recv, {c \in sseClients : channel[c] = "open"}, frames)
         /\ published' = published \o frames
       ELSE
         /\ reqs' = [reqs EXCEPT ![s] = Fail(r, 500)]
         /\ UNCHANGED <<orders, wrote, recv, published>>
    /\ UNCHANGED <<order_items, admin_notifications, sseClients, channel, joinedAt, leftAt,
                   gatewayCalls, paystackConfigured, nreq, nextOrderId, auth>>

\* ------------------------------------------- PATCH /api/orders/:id/cancel
\* mutant: the pending check is missing
CancelCheckAnyStatus(found, row, userId) ==
  IF ~found THEN 404
  ELSE IF row.user_id # userId THEN 403
  ELSE 0

\* lines 1037-1045: the response that rejects the cancel, or 0 when it may proceed
CancelCheck(found, row, userId) ==
  IF ~found THEN 404
  ELSE IF row.user_id # userId THEN 403
  ELSE IF row.status # "pending" THEN 400
  ELSE 0

CancelBegin(s, serial) ==
  \E u \in Users, id \in OrderIds :
    /\ Admit(s, serial, MaxRequests)
    /\ nreq' = nreq + 1
    /\ last' = s
    /\ reqs' = [reqs EXCEPT ![s] = NewReq("cancel", "read", u, id, BaseBody, "cancelled")]
    /\ UNCHANGED <<store, hub, gatewayCalls, paystackConfigured, nextOrderId, auth>>

\* the SELECT of lines 1033-1036 returned
CancelRead(s) ==
  \E dbOk \in BOOLEAN :
    LET r == reqs[s]
        found == r.id \in DOMAIN orders
        row == IF found THEN orders[r.id] ELSE NoOrder
        code == CancelCheck(found, row, r.user)
    IN
    /\ r.kind = "cancel" /\ r.pc = "read"
    /\ last' = s
    /\ reqs' = [reqs EXCEPT ![s] =
         IF ~dbOk THEN Fail(r, 500)
         ELSE IF code # 0 THEN Finish([r EXCEPT !.found = found, !.row = row], code)
         ELSE [r EXCEPT !.pc = "update", !.found = TRUE, !.row = row]]
    /\ UNCHANGED <<store, hub, gatewayCalls, paystackConfigured, nreq, nextOrderId, auth>>

\* the UPDATE of lines 1047-1049 returned; then the response and the broadcasts
CancelUpdate(s) ==
  \E dbOk \in BOOLEAN :
    LET r == reqs[s]
        frames == StatusFrames(r.id, "cancelled", r.row, TRUE)
    IN
    /\ r.kind = "cancel" /\ r.pc = "update"
    /\ last' = s
    /\ IF dbOk THEN
         /\ orders' = SetStatus(orders, r.id, "cancelled")
         /\ reqs' = [reqs EXCEPT ![s].pc = "notify", ![s].resp = 200, ![s].committed = TRUE,
                                 ![s].was = StoredStatus(orders, r.id)]
         /\ wrote' = WriteAll(wrote, sseClients, frames)
         /\ recv' = WriteAll(recv, {c \in sseClients : channel[c] = "open"}, frames)
         /\ published' = published \o frames
       ELSE
         /\ reqs' = [reqs EXCEPT ![s] = Fail(r, 500)]
         /\ UNCHANGED <<orders, wrote, recv, published>>
    /\ UNCHANGED <<order_items, admin_notifications, sseClients, channel, joinedAt, leftAt,
                   gatewayCalls, paystackConfigured, nreq, nextOrderId, auth>>

\* ------------------------------------------------ DELETE /api/orders/:id
DeleteBegin(s, serial) ==
  \E u \in Users, id \in OrderIds :
    LET r == NewReq("delete", "delItems", u, id, BaseBody, "none") IN
    /\ Admit(s, serial, MaxRequests)
    /\ nreq' = nreq + 1
    /\ last' = s
    /\ reqs' = [reqs EXCEPT ![s] = IF ~IsAdmin(u) THEN Finish(r, 403) ELSE r]
    /\ UNCHANGED <<store, hub, gatewayCalls, paystackConfigured, nextOrderId, auth>>

\* DELETE FROM public.order_items WHERE order_id = id returned (line 973)
DeleteItems(s) ==
  \E dbOk \in BOOLEAN :
    LET r == reqs[s] IN
    /\ r.kind = "delete" /\ r.pc = "delItems"
    /\ last' = s
    /\ IF dbOk THEN
         /\ order_items' = SelectSeq(order_items, LAMBDA row : row.order_id # r.id)
         /\ reqs' = [reqs EXCEPT ![s].pc = "delOrder"]
       ELSE
         /\ reqs' = [reqs EXCEPT ![s] = Fail(r, 500)]
         /\ UNCHANGED order_items
    /\ UNCHANGED <<orders, admin_notifications, hub, gatewayCalls, paystackConfigured, nreq,
                   nextOrderId, auth>>

\* DELETE FROM public.orders WHERE id = id returned (line 977); then the response and
\* the order_deleted broadcast (lines 980-981)
DeleteOrder(s) ==
  \E dbOk \in BOOLEAN :
    LET r == reqs[s]
        frames == <<Frame("order_deleted", r.id, "none")>>
    IN
    /\ r.kind = "delete" /\ r.pc = "delOrder"
    /\ last' = s
    /\ IF dbOk THEN
         /\ orders' = [i \in DOMAIN orders \ {r.id} |-> orders[i]]
         /\ reqs' = [reqs EXCEPT ![s] = Finish([r EXCEPT !.committed = TRUE], 200)]
         /\ wrote' = WriteAll(wrote, sseClients, frames)
         /\ recv' = WriteAll(recv, {c \in sseClients : channel[c] = "open"}, frames)
         /\ published' = published \o frames
       ELSE
         /\ reqs' = [reqs EXCEPT ![s] = Fail(r, 500)]
         /\ UNCHANGED <<orders, wrote, recv, published>>
    /\ UNCHANGED <<order_items, admin_notifications, sseClients, channel, joinedAt, leftAt,
                   gatewayCalls, paystackConfigured, nreq, nextOrderId, auth>>

\* ------------------------------------------------ GET /api/orders/stream
UnusedChannels == {c \in Channels : channel[c] = "unused"}

\* mutant: the stream is opened with two init frames
StreamOpeningTwice == <<Frame("init", 0, "none"), Frame("init", 0, "none")>>

\* line 440: what is written to a new stream before it is registered
StreamOpening == <<Frame("init", 0, "none")>>

\* lines 435-441: the init frame is written, then the response is registered.
\* Connections are numbered in the order they are made.
Subscribe(c, serial, counted) ==
  /\ UnusedChannels # {}
  /\ c = SetMin(UnusedChannels)
  /\ serial => Quiet
  /\ IF counted THEN nreq < MaxRequests /\ nreq' = nreq + 1 ELSE nreq' = nreq
  /\ channel' = [channel EXCEPT ![c] = "open"]
  /\ wrote' = [wrote EXCEPT ![c] = @ \o StreamOpening]
  /\ recv' = [recv EXCEPT ![c] = @ \o StreamOpening]
  /\ sseClients' = sseClients \cup {c}
  /\ joinedAt' = [joinedAt EXCEPT ![c] = Len(published)]
  /\ last' = 0
  /\ UNCHANGED <<store, published, leftAt, gatewayCalls, paystackConfigured, reqs, nextOrderId, auth>>

\* the client is gone but the server has not seen the connection close yet
ConnectionLost(c, serial) ==
  /\ channel[c] = "open"
  /\ serial => Quiet
  /\ channel' = [channel EXCEPT ![c] = "lost"]
  /\ leftAt' = [leftAt EXCEPT ![c] = Len(published)]
  /\ last' = 0
  /\ UNCHANGED <<store, sseClients, wrote, recv, published, joinedAt, gatewayCalls,
                 paystackConfigured, reqs, nreq, nextOrderId, auth>>

\* req.on("close") (lines 442-445)
Close(c, serial) ==
  /\ channel[c] \in {"open", "lost"}
  /\ serial => Quiet
  /\ channel' = [channel EXCEPT ![c] = "closed"]
  /\ sseClients' = sseClients \ {c}
  /\ leftAt' = IF channel[c] = "open" THEN [leftAt EXCEPT ![c] = Len(published)] ELSE leftAt
  /\ last' = 0
  /\ UNCHANGED <<store, wrote, recv, published, joinedAt, gatewayCalls, paystackConfigured,
                 reqs, nreq, nextOrderId, auth>>

\* ------------------------------- POST /api/auth/login and admin-login
\* the lock as the history of a key tells it: the failures since the last successful
\* login are counted off in runs of MAX_LOGIN_ATTEMPTS; the key is locked from the
\* failure that completes a run until LOGIN_BLOCK_DURATION_MS after the latest such
\* failure
Locked(history, t) ==
  LET runs == Len(history) \div MAX_LOGIN_ATTEMPTS IN
  /\ runs >= 1
  /\ t < history[runs * MAX_LOGIN_ATTEMPTS] + LOGIN_BLOCK_DURATION_MS

LoginInFlight(s) == logins[s].pc \notin {"idle", "done"}
FreeLoginSlots == {s \in Slots : ~LoginInFlight(s)}

\* a login request is admitted into the lowest free slot; when serial, only while
\* no other login request is in flight
AdmitLogin(s, serial) ==
  /\ nlogin < MaxLogins
  /\ FreeLoginSlots # {}
  /\ s = SetMin(FreeLoginSlots)
  /\ serial => \A t \in Slots : ~LoginInFlight(t)

NewLogin(kind, body, ip) ==
  LET email == normalizeEmail(body.email) IN
  [IdleLogin EXCEPT !.kind = kind, !.email = email, !.ip = ip,
                    !.password = IF body.password.isString THEN body.password.chars ELSE <<>>,
                    !.wasLocked = Locked(fails[getKey(email, ip)], now)]

Answer(r, code) == [r EXCEPT !.pc = "done", !.resp = code]

\* the slots after a step that leaves request r in slot s: the locals of a request
\* answered earlier are gone
Step(s, r) ==
  [t \in Slots |-> IF t = s THEN r ELSE IF LoginInFlight(t) THEN logins[t] ELSE IdleLogin]

\* a key is fresh at t when it has no record or the lockout of its record is over
Fresh(attempts, key, t) ==
  \/ key \notin DOMAIN attempts
  \/ attempts[key].blockedUntil # 0 /\ attempts[key].blockedUntil <= t

\* the comparisons counted for each key after a step that performed n of them for
\* the key of request r: the count starts again whenever the key is fresh
Compared(r, n) ==
  compares' = [k \in AllKeys |->
     IF Fresh(loginAttempts', k, now') THEN 0
     ELSE compares[k] + (IF k = getKey(r.email, r.ip) THEN n ELSE 0)]

\* the steps that call recordFailure and clearFailures, with the history they leave
Failed(r) ==
  /\ loginAttempts' = recordFailure(loginAttempts, r.email, r.ip, now)
  /\ fails' = [fails EXCEPT ![getKey(r.email, r.ip)] = Append(@, now)]
Succeeded(r) ==
  /\ loginAttempts' = clearFailures(loginAttempts, r.email, r.ip)
  /\ fails' = [fails EXCEPT ![getKey(r.email, r.ip)] = <<>>]

\* POST /api/auth/login up to its first await (lines 498-512)
LoginBegin(s, serial) ==
  \E e \in EmailInputs, p \in PasswordInputs, ip \in IpInputs :
    LET body == [email |-> e, password |-> JsStr(p)]
        r == NewLogin("login", body, ip)
    IN
    /\ AdmitLogin(s, serial)
    /\ nlogin' = nlogin + 1
    /\ lastLogin' = s
    /\ prevAttempts' = loginAttempts
    /\ logins' = Step(s,
         IF ~loginSchema(body) THEN Answer(r, 400)
         ELSE IF isBlocked(loginAttempts, r.email, ip, now) THEN Answer(r, 429)
         ELSE [r EXCEPT !.pc = "lookup", !.lookedUp = TRUE])
    /\ UNCHANGED <<shop, loginAttempts, now, adminConfigured, fails, compares>>

\* the SELECT of public.users returned (lines 514-518)
LoginLookup(s) ==
  \E dbOk \in BOOLEAN :
    LET r == logins[s] IN
    /\ r.kind = "login" /\ r.pc = "lookup"
    /\ lastLogin' = s
    /\ prevAttempts' = loginAttempts
    /\ IF ~dbOk THEN
         /\ logins' = Step(s, Answer(r, 500))
         /\ UNCHANGED <<loginAttempts, fails>>
       ELSE IF r.email \notin DOMAIN users THEN
         /\ Failed(r)
         /\ logins' = Step(s, Answer(r, 401))
       ELSE
         /\ logins' = Step(s, [r EXCEPT !.pc = "compare", !.compared = TRUE])
         /\ UNCHANGED <<loginAttempts, fails>>
    /\ UNCHANGED <<shop, now, adminConfigured, nlogin>>
    /\ Compared(r, 0)

\* bcrypt.compare returned (lines 520-524)
LoginCompare(s) ==
  LET r == logins[s]
      ok == r.password = users[r.email]
      locked == isBlocked(loginAttempts, r.email, r.ip, now)
  IN
  /\ r.kind = "login" /\ r.pc = "compare"
  /\ lastLogin' = s
  /\ prevAttempts' = loginAttempts
  /\ IF ~ok THEN
       /\ Failed(r)
       /\ logins' = Step(s, Answer([r EXCEPT !.lockedAtCompare = locked], 401))
     ELSE
       /\ logins' = Step(s, [r EXCEPT !.pc = "roles", !.lockedAtCompare = locked])
       /\ UNCHANGED <<loginAttempts, fails>>
  /\ UNCHANGED <<shop, now, adminConfigured, nlogin>>
  /\ Compared(r, 1)

\* the SELECT of public.user_roles returned (lines 526-530)
LoginRoles(s) ==
  \E dbOk \in BOOLEAN :
    LET r == logins[s] IN
    /\ r.kind = "login" /\ r.pc = "roles"
    /\ lastLogin' = s
    /\ prevAttempts' = loginAttempts
    /\ IF dbOk THEN
         /\ Succeeded(r)
         /\ logins' = Step(s, Answer(r, 200))
       ELSE
         /\ logins' = Step(s, Answer(r, 500))
         /\ UNCHANGED <<loginAttempts, fails>>
    /\ UNCHANGED <<shop, now, adminConfigured, nlogin>>
    /\ Compared(r, 0)

\* POST /api/auth/admin-login (lines 537-567): no await, one step
AdminLogin(s, serial) ==
  \E e \in EmailInputs, p \in PasswordInputs, ip \in IpInputs :
    LET body == [email |-> e, password |-> JsStr(p)]
        r == NewLogin("admin-login", body, ip)
        adminEmail == normalizeEmail(ADMIN_EMAIL)
    IN
    /\ AdmitLogin(s, serial)
    /\ nlogin' = nlogin + 1
    /\ lastLogin' = s
    /\ prevAttempts' = loginAttempts
    /\ IF ~loginSchema(body) THEN
         /\ logins' = Step(s, Answer(r, 400))
         /\ UNCHANGED <<loginAttempts, fails>>
       ELSE IF isBlocked(loginAttempts, r.email, ip, now) THEN
         /\ logins' = Step(s, Answer(r, 429))
         /\ UNCHANGED <<loginAttempts, fails>>
       ELSE IF ~adminConfigured THEN
         /\ logins' = Step(s, Answer(r, 503))
         /\ UNCHANGED <<loginAttempts, fails>>
       ELSE IF r.email # adminEmail \/ p # ADMIN_PASSWORD THEN
         /\ Failed(r)
         /\ logins' = Step(s, Answer([r EXCEPT !.compared = TRUE], 401))
       ELSE
         /\ Succeeded(r)
         /\ logins' = Step(s, Answer([r EXCEPT !.compared = TRUE], 200))
    /\ UNCHANGED <<shop, now, adminConfigured>>
    /\ Compared(r, IF loginSchema(body) /\ ~isBlocked(loginAttempts, r.email, ip, now)
                       /\ adminConfigured THEN 1 ELSE 0)

\* Date.now() advances, by a millisecond or by just under the lockout duration
Tick(d) ==
  /\ now + d \in Instants
  /\ now' = now + d
  /\ lastLogin' = 0
  /\ logins' = [t \in Slots |-> IF LoginInFlight(t) THEN logins[t] ELSE IdleLogin]
  /\ compares' = [k \in AllKeys |-> IF Fresh(loginAttempts, k, now + d) THEN 0 ELSE compares[k]]
  /\ UNCHANGED <<shop, loginAttempts, adminConfigured, nlogin, fails, prevAttempts>>

Next ==
  \/ \E s \in Slots : CreateBegin(s, TRUE, MaxRequests, FewBodies)
  \/ \E s \in Slots : CreateValidate(s)
  \/ \E s \in Slots : CreateVerify(s)
  \/ \E s \in Slots : CreateInsert(s)
  \/ \E s \in Slots : CreateItem(s)
  \/ \E s \in Slots : StatusBegin(s, TRUE)
  \/ \E s \in Slots : StatusRead(s)
  \/ \E s \in Slots : StatusUpdate(s)
  \/ \E s \in Slots : CancelBegin(s, TRUE)
  \/ \E s \in Slots : CancelRead(s)
  \/ \E s \in Slots : CancelUpdate(s)
  \/ \E s \in Slots : Notify(s)
  \/ \E s \in Slots : DeleteBegin(s, TRUE)
  \/ \E s \in Slots : DeleteItems(s)
  \/ \E s \in Slots : DeleteOrder(s)
  \/ \E c \in Channels : Subscribe(c, TRUE, TRUE)
  \/ \E c \in Channels : ConnectionLost(c, TRUE)
  \/ \E c \in Channels : Close(c, TRUE)

Spec == Init /\ [][Next]_vars

\* one submission at a time, drawn from the full set of sample bodies
NextCreate ==
  \/ \E s \in Slots : CreateBegin(s, TRUE, MaxCreates, Bodies)
  \/ \E s \in Slots : CreateValidate(s)
  \/ \E s \in Slots : CreateVerify(s)
  \/ \E s \in Slots : CreateInsert(s)
  \/ \E s \in Slots : CreateItem(s)
  \/ \E c \in Channels : Subscribe(c, TRUE, FALSE)
  \/ \E c \in Channels : ConnectionLost(c, TRUE)
  \/ \E c \in Channels : Close(c, TRUE)

SpecCreate == Init /\ [][NextCreate]_vars

\* the stream with create and owner cancel as its publishers: connections come and
\* go between the requests
NextStream ==
  \/ \E s \in Slots : CreateBegin(s, TRUE, MaxRequests, {BaseBody})
  \/ \E s \in Slots : CreateValidate(s)
  \/ \E s \in Slots : CreateInsert(s)
  \/ \E s \in Slots : CreateItem(s)
  \/ \E s \in Slots : CancelBegin(s, TRUE)
  \/ \E s \in Slots : CancelRead(s)
  \/ \E s \in Slots : CancelUpdate(s)
  \/ \E s \in Slots : Notify(s)
  \/ \E c \in Channels : Subscribe(c, TRUE, FALSE)
  \/ \E c \in Channels : ConnectionLost(c, TRUE)
  \/ \E c \in Channels : Close(c, TRUE)

SpecStream == Init /\ [][NextStream]_vars

\* the order routes with their requests interleaved at the awaits: a request is
\* admitted while another one is suspended; the staff and owner requests all
\* address the first order
InitConc == InitShop /\ InitAuth /\ paystackConfigured = FALSE /\ adminConfigured = TRUE

NextConc ==
  \/ \E s \in Slots : CreateBegin(s, FALSE, MaxRequests, {BaseBody})
  \/ \E s \in Slots : CreateValidate(s)
  \/ \E s \in Slots : CreateInsert(s)
  \/ \E s \in Slots : CreateItem(s)
  \/ \E s \in Slots : StatusBegin(s, FALSE) /\ reqs'[s].id = 1
  \/ \E s \in Slots : StatusRead(s)
  \/ \E s \in Slots : StatusUpdate(s)
  \/ \E s \in Slots : CancelBegin(s, FALSE) /\ reqs'[s].id = 1
  \/ \E s \in Slots : CancelRead(s)
  \/ \E s \in Slots : CancelUpdate(s)
  \/ \E s \in Slots : Notify(s)
  \/ \E s \in Slots : DeleteBegin(s, FALSE) /\ reqs'[s].id = 1
  \/ \E s \in Slots : DeleteItems(s)
  \/ \E s \in Slots : DeleteOrder(s)

SpecConc == InitConc /\ [][NextConc]_vars

\* the two login routes, one request at a time, and the clock
InitLogin == InitShop /\ InitAuth /\ paystackConfigured = TRUE /\ adminConfigured \in BOOLEAN

NextLogin ==
  \/ \E s \in Slots : LoginBegin(s, TRUE)
  \/ \E s \in Slots : LoginLookup(s)
  \/ \E s \in Slots : LoginCompare(s)
  \/ \E s \in Slots : LoginRoles(s)
  \/ \E s \in Slots : AdminLogin(s, TRUE)
  \/ \E d \in {1, LOGIN_BLOCK_DURATION_MS - 1} : Tick(d)

SpecLogin == InitLogin /\ [][NextLogin]_vars

\* POST /api/auth/login with its requests interleaved at the awaits, all for the
\* registered address, and the clock
NextLoginConc ==
  \/ \E s \in Slots : LoginBegin(s, FALSE) /\ logins'[s].email = <<"a", "@", "b">>
  \/ \E s \in Slots : LoginLookup(s)
  \/ \E s \in Slots : LoginCompare(s)
  \/ \E s \in Slots : LoginRoles(s)
  \/ \E d \in {1, LOGIN_BLOCK_DURATION_MS - 1} : Tick(d)

SpecLoginConc == InitLogin /\ [][NextLoginConc]_vars

\* =================================================================== claims
\* the request that took the latest step, when it is at one of the given places
Latest(s, kind, pcs) == last = s /\ reqs[s].kind = kind /\ reqs[s].pc \in pcs
PreStatus(r) == IF r.id \in DOMAIN r.pre.orders THEN r.pre.orders[r.id].status ELSE "none"

\* C1: a gateway submission that passed validation and got a verification reply
\* ends with a persisted order and 201 iff the reply reports success and carries
\* an amount equal to round(total * 100); otherwise no order row is written.
\* (Store failures, which answer 500, are left aside.)
C1_GatewayCreatedIffVerified ==
  \A s \in Slots :
    LET r == reqs[s]
        d == Draft(r.body)
        g == r.reply
    IN (/\ Latest(s, "create", {"done"})
        /\ d.payment_method = "paystack"
        /\ g.transport
        /\ ~r.failed)
       => /\ (r.resp = 201 /\ r.id \in DOMAIN orders)
             <=> (g.resOk /\ g.status /\ g.txStatus = "success"
                  /\ g.amountIsNumber /\ g.amount = RoundMinor(d.total))
          /\ r.resp # 201 => orders = r.pre.orders

\* the edges of the order state machine of the specification
Terminal == {"delivered", "cancelled"}
Edge(from, to) ==
  \/ <<from, to>> \in {<<"pending", "preparing">>, <<"preparing", "ready">>,
                       <<"ready", "out_for_delivery">>, <<"out_for_delivery", "delivered">>}
  \/ from \in allowed \ Terminal /\ to = "cancelled"

\* C2: a staff status change of an existing order is accepted, and the status
\* written, iff (current, target) is an edge of the state machine; a rejected
\* change leaves the stored status as it was.
C2_AcceptedIffEdge ==
  \A s \in Slots :
    LET r == reqs[s]
        from == PreStatus(r)
    IN (/\ Latest(s, "status", {"done"})
        /\ IsAdmin(r.user)
        /\ from # "none"
        /\ ~r.failed)
       => /\ (r.resp = 200 /\ orders[r.id].status = r.status) <=> Edge(from, r.status)
          /\ r.resp # 200 => orders[r.id].status = from

\* C3: delivered and cancelled are terminal: a status-change or owner-cancel
\* request on an order that is delivered or cancelled leaves its status as it is.
C3_TerminalStatusKept ==
  \A s \in Slots :
    LET r == reqs[s] IN
    (/\ last = s
     /\ r.kind \in {"status", "cancel"}
     /\ r.pc \in {"notify", "done"}
     /\ PreStatus(r) \in Terminal)
    => orders[r.id].status = PreStatus(r)

\* C4: every persisted order paid through the gateway has payment_status paid.
C4_GatewayOrdersArePaid ==
  \A id \in DOMAIN orders :
    orders[id].payment_method = "paystack" => orders[id].payment_status = "paid"

\* a gateway order exists and a later status change, cancel or delete has run
C4_Witness ==
  /\ \E id \in DOMAIN orders :
       orders[id].payment_method = "paystack" /\ orders[id].status # "pending"
  /\ \E s \in Slots : reqs[s].kind \in {"status", "cancel"} /\ reqs[s].committed

NonGateway == allowedPaymentMethods \ {"paystack"}

\* C5: an order created by a submission with a non-gateway payment method is
\* persisted with payment_status pending and status pending, no gateway call was
\* made for it, and a valid such submission is created unless the store fails;
\* every created order starts in status pending.
C5_NonGatewayPending ==
  \A s \in Slots :
    LET r == reqs[s]
        d == Draft(r.body)
    IN /\ (Latest(s, "create", {"items", "done"}) /\ r.committed)
          => /\ r.id \in DOMAIN orders
             /\ orders[r.id].status = "pending"
             /\ d.payment_method \in NonGateway
                => /\ orders[r.id].payment_status = "pending"
                   /\ gatewayCalls = r.pre.gatewayCalls
       /\ (/\ Latest(s, "create", {"done"})
           /\ d.payment_method \in NonGateway
           /\ ValidationError(r.body) = "ok"
           /\ ~r.failed)
          => r.resp = 201 /\ r.committed

\* an order was created for a non-gateway submission while the gateway is configured
C5_Witness ==
  \E s \in Slots :
    /\ Latest(s, "create", {"done"})
    /\ reqs[s].committed
    /\ reqs[s].resp = 201
    /\ reqs[s].body.payment_method = "vodafone"
    /\ paystackConfigured

\* what a request can change, compared with the state it was admitted in
OrdersKept(r) == orders = r.pre.orders
StreamsKept(r) == wrote = r.pre.wrote
NotificationsKept(r) == admin_notifications = r.pre.admin_notifications

\* C6: run alone, an owner cancel sets the status to cancelled iff the order
\* exists, the requester owns it and its status is pending; otherwise it answers
\* 404, 403 or 400 respectively and leaves orders, streams and notifications
\* unchanged.  (A failing store call answers 500.)
C6_CancelOwnerPendingOnly ==
  \A s \in Slots :
    LET r == reqs[s]
        exists == r.id \in DOMAIN r.pre.orders
        owner == exists /\ r.pre.orders[r.id].user_id = r.user
        pending == exists /\ r.pre.orders[r.id].status = "pending"
        cancelled == r.committed /\ r.id \in DOMAIN orders /\ orders[r.id].status = "cancelled"
    IN (Latest(s, "cancel", {"notify", "done"}) /\ ~(r.failed /\ r.resp = 500))
       => /\ r.committed <=> (exists /\ owner /\ pending)
          /\ r.committed => cancelled /\ r.resp = 200
          /\ ~exists => r.resp = 404
          /\ (exists /\ ~owner) => r.resp = 403
          /\ (exists /\ owner /\ ~pending) => r.resp = 400
          /\ r.resp \in {404, 403, 400}
             => OrdersKept(r) /\ StreamsKept(r) /\ NotificationsKept(r)

\* the owner cancelled a pending order while a subscriber was registered
C6_Witness ==
  \E s \in Slots :
    /\ Latest(s, "cancel", {"done"})
    /\ reqs[s].resp = 200
    /\ orders[reqs[s].id].status = "cancelled"
    /\ sseClients # {}

\* the owner's cancel of an order that is being prepared was rejected
C6_RejectedReached ==
  \E s \in Slots :
    /\ Latest(s, "cancel", {"done"})
    /\ reqs[s].resp = 400
    /\ reqs[s].pre.orders[reqs[s].id].status = "preparing"
    /\ reqs[s].pre.orders[reqs[s].id].user_id = reqs[s].user

\* C7: a successful owner cancel, with the notification insert succeeding, writes
\* order_status_updated and then exactly one order_cancelled to every registered
\* subscriber and nothing to the others, and appends exactly one notification row
\* with the order's id, customer name, phone and total and read = false; a
\* rejected cancel writes no frame and no notification.
C7_CancelNotifiesOnce ==
  \A s \in Slots :
    LET r == reqs[s]
        old == r.pre.orders[r.id]
        cancelledFrame == [type |-> "order_cancelled", order_id |-> r.id, status |-> "none",
                           customer_name |-> old.customer_name,
                           customer_phone |-> old.customer_phone, total |-> old.total]
    IN /\ (Latest(s, "cancel", {"done"}) /\ r.resp = 200 /\ ~r.failed)
          => /\ \A c \in Channels :
                  wrote[c] = r.pre.wrote[c] \o
                    (IF c \in sseClients
                     THEN <<Frame("order_status_updated", r.id, "cancelled"), cancelledFrame>>
                     ELSE <<>>)
             /\ admin_notifications = Append(r.pre.admin_notifications,
                  [type |-> "order_cancelled", order_id |-> r.id,
                   customer_name |-> old.customer_name, customer_phone |-> old.customer_phone,
                   total |-> old.total, read |-> FALSE])
       /\ (Latest(s, "cancel", {"done"}) /\ r.resp # 200)
          => StreamsKept(r) /\ NotificationsKept(r)

\* a pending order was cancelled by its owner while a subscriber was registered
C7_Witness ==
  \E s \in Slots :
    /\ Latest(s, "cancel", {"done"})
    /\ reqs[s].resp = 200
    /\ ~reqs[s].failed
    /\ sseClients # {}
    /\ Len(admin_notifications) = 1

\* C8: once the order row or the status update is committed, the request answers
\* success (201 / 200) and the committed row stays as written, whatever fails
\* afterwards (an item insert, a write to a lost connection, the notification
\* insert).
C8_CommittedMeansSuccess ==
  \A s \in Slots :
    LET r == reqs[s] IN
    (last = s /\ r.pc = "done" /\ r.committed /\ r.kind \in {"create", "status", "cancel"})
    => /\ r.kind = "create"
          => /\ r.resp = 201
             /\ r.id \in DOMAIN orders
             /\ orders[r.id].status = "pending"
             /\ orders[r.id].user_id = r.user
             /\ orders[r.id].payment_status = r.payment_status
       /\ r.kind = "status"
          => r.resp = 200 /\ (r.id \in DOMAIN orders => orders[r.id].status = r.status)
       /\ r.kind = "cancel"
          => r.resp = 200 /\ orders[r.id].status = "cancelled"

\* an order was created although an item insert failed and the broadcast went to
\* a connection that was lost
C8_Witness ==
  \E s \in Slots :
    /\ Latest(s, "create", {"done"})
    /\ reqs[s].committed
    /\ reqs[s].failed
    /\ \E c \in sseClients : channel[c] = "lost" /\ Len(wrote[c]) > Len(recv[c])

\* a cancellation answered 200 although its notification insert failed
C8_NotificationFailureReached ==
  \E s \in Slots :
    /\ last = s /\ reqs[s].pc = "done" /\ reqs[s].kind \in {"status", "cancel"}
    /\ reqs[s].committed /\ reqs[s].failed /\ reqs[s].resp = 200

\* the validation rules of the specification, on a submitted body
C9_Invalid(b) ==
  \/ Len(sanitizeString(b.customer_name, 100)) < 2
  \/ Len(sanitizeString(b.customer_phone, 20)) < 10
  \/ b.order_type \notin {"delivery", "pickup"}
  \/ b.order_type = "delivery" /\ Len(sanitizeString(b.delivery_address, 500)) < 5
  \/ ~b.subtotal.finite \/ b.subtotal.v <= 0
  \/ ~b.total.finite \/ b.total.v <= 0
  \/ Len(b.items) = 0 \/ Len(b.items) > 50
  \/ b.payment_method \notin {"mtn", "vodafone", "airteltigo", "pay_on_delivery", "paystack"}
  \/ b.payment_method = "paystack" /\ Len(sanitizeString(b.paystack_reference, 100)) = 0

\* C9: a submission that violates a validation rule is answered 400 (500 when the
\* store fails before validation) and has no side effect: no gateway call, no
\* order or item row, no frame written.
C9_InvalidRejectedWithoutEffect ==
  \A s \in Slots :
    LET r == reqs[s] IN
    (last = s /\ r.kind = "create" /\ C9_Invalid(r.body))
    => /\ r.pc \in {"ensure", "done"}
       /\ r.pc = "done" => (r.resp = 400 \/ (r.resp = 500 /\ r.failed))
       /\ ~r.committed
       /\ OrdersKept(r)
       /\ order_items = r.pre.order_items
       /\ StreamsKept(r)
       /\ gatewayCalls = r.pre.gatewayCalls

\* a gateway submission without a reference was rejected while the gateway was
\* configured and a subscriber was registered
C9_Witness ==
  \E s \in Slots :
    /\ Latest(s, "create", {"done"})
    /\ reqs[s].resp = 400
    /\ reqs[s].body.payment_method = "paystack"
    /\ C9_Invalid(reqs[s].body)
    /\ paystackConfigured
    /\ sseClients # {}

ItemRowsOf(id) == SelectSeq(order_items, LAMBDA row : row.order_id = id)

\* C10: when a submission mixes valid items with an item of quantity 0, the order
\* is created and no row is written for the quantity-0 item, while every valid
\* item gets a row.
C10_ZeroQuantityDropped ==
  \A s \in Slots :
    LET r == reqs[s]
        items == r.body.items
        zero == {i \in 1..Len(items) : items[i].quantity = JsNum(0)}
        valid == {i \in 1..Len(items) : i \notin zero /\ ~ItemInvalid(items[i])}
    IN (/\ Latest(s, "create", {"done"})
        /\ ValidationError(r.body) = "ok"
        /\ zero # {} /\ valid # {}
        /\ ~r.failed)
       => /\ r.resp = 201
          /\ Len(ItemRowsOf(r.id)) = Cardinality(valid)

\* an item that is invalid in the specification's sense: empty name, or a price
\* that is not a number or not positive
C11_ItemInvalid(it) ==
  Len(sanitizeString(it.name, 200)) = 0 \/ ~it.price.finite \/ it.price.v <= 0

\* C11: a submission all of whose items are invalid is rejected before any order
\* row is written: its request never commits an order and is not answered 201.
C11_AllInvalidItemsRejected ==
  \A s \in Slots :
    LET r == reqs[s]
        items == r.body.items
    IN (/\ last = s /\ r.kind = "create"
        /\ Len(items) > 0
        /\ \A i \in 1..Len(items) : C11_ItemInvalid(items[i]))
       => /\ ~r.committed
          /\ OrdersKept(r)
          /\ r.pc = "done" => r.resp # 201

\* total, subtotal and delivery fee in minor units; a missing fee counts as 0
C12_Minor(x) == IF x = NULL THEN 0 ELSE RoundMinor(x)
C12_Consistent(total, subtotal, fee) == C12_Minor(total) = C12_Minor(subtotal) + C12_Minor(fee)

\* C12: a submission whose total differs from subtotal + delivery_fee (in minor
\* units) creates no order, and every persisted order has total = subtotal +
\* delivery_fee.
C12_TotalIsSum ==
  /\ \A s \in Slots :
       LET r == reqs[s]
           b == r.body
       IN (/\ last = s /\ r.kind = "create"
           /\ b.total.finite /\ b.subtotal.finite /\ b.delivery_fee.finite
           /\ ~C12_Consistent(b.total.v, b.subtotal.v, b.delivery_fee.v))
          => ~r.committed /\ OrdersKept(r)
  /\ \A id \in DOMAIN orders :
       C12_Consistent(orders[id].total, orders[id].subtotal, orders[id].delivery_fee)

\* C13: what a subscriber is sent, and what it receives, starts with one init
\* frame, written when it subscribes; init does not occur again; as long as nothing
\* is published after it connected, it has received init and nothing else.
C13_InitFirstAndOnce ==
  \A c \in Channels :
    channel[c] # "unused"
    => /\ Len(recv[c]) >= 1 /\ recv[c][1].type = "init"
       /\ \A i \in 2..Len(recv[c]) : recv[c][i].type # "init"
       /\ Len(wrote[c]) >= 1 /\ wrote[c][1].type = "init"
       /\ \A i \in 2..Len(wrote[c]) : wrote[c][i].type # "init"
       /\ Len(published) = joinedAt[c] => recv[c] = <<Frame("init", 0, "none")>>

\* a subscriber that connected after an event was published has its init frame
\* only, while an earlier subscriber has received that event after its init
C13_Witness ==
  \E c, e \in Channels :
    /\ channel[c] = "open" /\ joinedAt[c] > 0 /\ Len(published) = joinedAt[c]
    /\ Len(recv[c]) = 1
    /\ channel[e] # "unused" /\ Len(recv[e]) > 1

\* C14: the frames a subscriber received after init are exactly the events
\* published from its registration until its client went away, each once and in
\* publish order; nothing published before or after is delivered to it.
C14_ReceivedWhileConnected ==
  \A c \in Channels :
    channel[c] # "unused"
    => Tail(recv[c]) =
         SubSeq(published, joinedAt[c] + 1,
                IF channel[c] = "open" THEN Len(published) ELSE leftAt[c])

\* a subscriber registered after one event, received a later one, went away, and
\* another event was published after that
C14_Witness ==
  \E c \in Channels :
    /\ channel[c] \in {"lost", "closed"}
    /\ 0 < joinedAt[c] /\ joinedAt[c] < leftAt[c] /\ leftAt[c] < Len(published)
    /\ Len(recv[c]) = 1 + leftAt[c] - joinedAt[c]

\* C15: a key is blocked exactly from its 5th failure in a row (no successful login
\* in between, counted anew after each lock) until 15 minutes after that failure:
\* blocked at every instant before, free from that instant on; with fewer failures
\* it is not blocked; the stored count starts again at 0 when the lock is set.
C15_LockedForDuration ==
  \A k \in AllKeys :
    LET n == Len(fails[k])
        count == IF k \in DOMAIN loginAttempts THEN loginAttempts[k].count ELSE 0
        blocked == k \in DOMAIN loginAttempts /\ loginAttempts[k].blockedUntil > now
    IN /\ blocked <=> (n >= 5 /\ now < fails[k][5 * (n \div 5)] + 15 * 60000)
       /\ n < 5 => ~blocked
       /\ count = n % 5

\* a key whose fifth failure came at time 1 is still blocked 15 minutes after its
\* first failure
C15_Witness ==
  \E k \in AllKeys :
    /\ Len(fails[k]) = 5 /\ fails[k][1] = 0 /\ fails[k][5] = 1
    /\ now = 15 * 60000
    /\ isBlocked(loginAttempts, k[1], k[2], now)

\* C16: a well-formed login or admin-login attempt for a key that is locked when it
\* arrives is answered 429 in its first step, with no user lookup and no password
\* comparison, and leaves the Map of records as it was.
C16_BlockedRejectedUntouched ==
  \A s \in Slots :
    LET r == logins[s] IN
    (r.kind # "none" /\ r.wasLocked /\ IsEmail(r.email) /\ Len(r.password) >= 6)
    => /\ r.pc = "done" /\ r.resp = 429
       /\ ~r.lookedUp /\ ~r.compared
       /\ lastLogin = s => loginAttempts = prevAttempts

\* a login with the right password was refused while its key was locked
C16_Witness ==
  \E s \in Slots :
    /\ lastLogin = s /\ logins[s].kind = "login" /\ logins[s].wasLocked
    /\ logins[s].resp = 429
    /\ logins[s].email \in DOMAIN users /\ logins[s].password = users[logins[s].email]

\* C17: a successful login removes the record of its key: the key is not blocked,
\* its next failure counts as the first, and the records of the other keys are as
\* they were before.
C17_SuccessDeletesRecord ==
  \A s \in Slots :
    LET r == logins[s]
        key == getKey(r.email, r.ip)
        after == recordFailure(loginAttempts, r.email, r.ip, now)
    IN (lastLogin = s /\ r.pc = "done" /\ r.resp = 200)
       => /\ key \notin DOMAIN loginAttempts
          /\ ~isBlocked(loginAttempts, r.email, r.ip, now)
          /\ after[key].count = 1 /\ after[key].blockedUntil = 0
          /\ DOMAIN loginAttempts = DOMAIN prevAttempts \ {key}
          /\ \A k \in DOMAIN loginAttempts : loginAttempts[k] = prevAttempts[k]

\* a login succeeded for a key with four failures on record while another key had
\* a record of its own
C17_Witness ==
  \E s \in Slots :
    LET key == getKey(logins[s].email, logins[s].ip) IN
    /\ lastLogin = s /\ logins[s].pc = "done" /\ logins[s].resp = 200
    /\ key \in DOMAIN prevAttempts /\ prevAttempts[key].count = 4
    /\ DOMAIN loginAttempts # {}

\* C18: with the gateway key unconfigured, a valid gateway submission is answered
\* with a 503 configuration error (not 402, not 500) and writes no order row.
C18_UnconfiguredIs503 ==
  \A s \in Slots :
    LET r == reqs[s] IN
    (/\ Latest(s, "create", {"done"})
     /\ ~paystackConfigured
     /\ r.body.payment_method = "paystack"
     /\ ValidationError(r.body) = "ok"
     /\ r.cause # "none")
    => r.resp = 503 /\ ~r.committed /\ OrdersKept(r)

\* C19: a gateway submission whose verification call was made and did not report
\* a successful payment (the call failed in transport, or the gateway answered
\* without success) is answered 402 and writes no order row.
C19_FailedVerificationIs402 ==
  \A s \in Slots :
    LET r == reqs[s]
        g == r.reply
    IN (/\ Latest(s, "create", {"done"})
        /\ gatewayCalls # r.pre.gatewayCalls
        /\ (r.cause = "transport" \/ ~g.resOk \/ ~g.status \/ g.txStatus # "success"))
       => r.resp = 402 /\ ~r.committed /\ OrdersKept(r)

\* the event types of the stream in the specification
C20_StreamTypes == {"init", "order_created", "order_status_updated", "order_cancelled"}

\* C20: every frame written to a subscriber has one of the four types of the
\* stream.
C20_OnlyStreamTypes ==
  \A c \in Channels : \A i \in 1..Len(wrote[c]) : wrote[c][i].type \in C20_StreamTypes

\* C21: a staff status change to cancelled for an order id that does not exist is
\* answered 404 and has no effect: no status written, no frame, no notification.
C21_CancelOfMissingOrder ==
  \A s \in Slots :
    LET r == reqs[s] IN
    (/\ Latest(s, "status", {"notify", "done"})
     /\ IsAdmin(r.user)
     /\ r.status = "cancelled"
     /\ r.id \notin DOMAIN r.pre.orders
     /\ ~r.failed)
    => /\ r.pc = "done" /\ r.resp = 404 /\ ~r.committed
       /\ OrdersKept(r) /\ StreamsKept(r) /\ NotificationsKept(r)

\* staff tried to cancel a missing order while another order existed and a
\* subscriber was registered
C21_Witness ==
  \E s \in Slots :
    /\ Latest(s, "status", {"done"})
    /\ reqs[s].status = "cancelled" /\ reqs[s].resp = 404
    /\ reqs[s].id \notin DOMAIN orders
    /\ orders # <<>>
    /\ sseClients # {}

\* C22: a failed insert of one item skips that item only: the insert of every
\* valid item of the submission is attempted (the loop reaches it), and when no
\* insert fails every valid item has its row.
C22_EveryValidItemAttempted ==
  \A s \in Slots :
    LET r == reqs[s]
        items == r.body.items
        valid == {i \in 1..Len(items) : ~ItemInvalid(items[i])}
    IN (Latest(s, "create", {"done"}) /\ r.committed)
       => /\ \A i \in valid : i <= r.idx
          /\ ~r.failed => Len(ItemRowsOf(r.id)) = Cardinality(valid)

\* C23: whatever the interleaving with staff status changes, an owner's cancel
\* never writes cancelled over a stored status that is not pending at the moment
\* of its write (a row that is gone by then is not written at all).
C23_CancelWritesOverPendingOnly ==
  \A s \in Slots :
    (reqs[s].kind = "cancel" /\ reqs[s].committed) => reqs[s].was \in {"pending", "none"}

\* C24: for every order at most one notification row and at most one
\* order_cancelled event are ever produced.
C24_OneNotificationPerOrder ==
  \A id \in OrderIds :
    /\ Len(SelectSeq(admin_notifications, LAMBDA n : n.order_id = id)) <= 1
    /\ Len(SelectSeq(published, LAMBDA f : f.type = "order_cancelled" /\ f.order_id = id)) <= 1

\* C25: every item row references an order row that exists, whatever the
\* interleaving of order creation with the hard delete.
C25_ItemsHaveTheirOrder ==
  \A i \in 1..Len(order_items) : order_items[i].order_id \in DOMAIN orders

\* C26: a channel is out of the registry once a write to it has failed, and once
\* it has closed; every registered channel whose client is there has received
\* every event published since it registered; a request that has published has
\* been answered.
C26_FailedWriteRemovesChannel ==
  /\ \A c \in Channels :
       (channel[c] = "lost" /\ Len(wrote[c]) > Len(recv[c])) => c \notin sseClients
  /\ \A c \in Channels : channel[c] = "closed" => c \notin sseClients
  /\ \A c \in sseClients :
       channel[c] = "open" => Tail(recv[c]) = SubSeq(published, joinedAt[c] + 1, Len(published))
  /\ \A s \in Slots : (last = s /\ ~StreamsKept(reqs[s])) => reqs[s].resp # 0

\* C27: once the status write of a cancellation has succeeded, the notification
\* insert is attempted, whether or not the frames written to the subscribers
\* arrived: the request goes on to the insert, and when it is over the row is there
\* unless the insert itself failed.
C27_NotificationAttempted ==
  \A s \in Slots :
    LET r == reqs[s]
        row == [type |-> "order_cancelled", order_id |-> r.id,
                customer_name |-> r.row.customer_name, customer_phone |-> r.row.customer_phone,
                total |-> r.row.total, read |-> FALSE]
    IN (/\ last = s /\ r.kind \in {"status", "cancel"}
        /\ r.committed /\ r.status = "cancelled")
       => /\ r.pc \in {"notify", "done"}
          /\ r.pc = "done"
             => \/ admin_notifications = Append(r.pre.admin_notifications, row)
                \/ r.failed /\ NotificationsKept(r)

\* a cancellation was notified although the frames written to a registered
\* subscriber were lost
C27_Witness ==
  \E s \in Slots :
    /\ last = s /\ reqs[s].kind \in {"status", "cancel"} /\ reqs[s].pc = "done"
    /\ reqs[s].committed /\ reqs[s].status = "cancelled"
    /\ Len(admin_notifications) = Len(reqs[s].pre.admin_notifications) + 1
    /\ \E c \in sseClients : channel[c] = "lost" /\ Len(wrote[c]) >= Len(recv[c]) + 2

\* C28: the orders persisted as paid are never more than the gateway references
\* that were verified: one reference backs at most one paid order.
C28_OnePaidOrderPerReference ==
  Cardinality({id \in DOMAIN orders : orders[id].payment_status = "paid"})
    <= Cardinality({gatewayCalls[i] : i \in 1..Len(gatewayCalls)})

\* C29: for every key, however concurrent login requests interleave, at most
\* MAX_LOGIN_ATTEMPTS password comparisons are performed between two instants at
\* which the key has no record or an expired lockout, and no comparison completes
\* for a key while it is locked.
C29_ComparisonsBounded ==
  /\ \A k \in AllKeys : compares[k] <= MAX_LOGIN_ATTEMPTS
  /\ \A s \in Slots : ~logins[s].lockedAtCompare

\* C30: a request writes order_created, order_status_updated or order_cancelled
\* to a subscriber only when its store write is done (the order insert and the
\* whole item loop, or the status update) and it has been answered; in every
\* stream order_cancelled directly follows the order_status_updated of the same
\* cancellation.
C30_EventsAfterWriteAndResponse ==
  /\ \A s \in Slots :
       LET r == reqs[s] IN
       (last = s /\ r.kind \in {"create", "status", "cancel"} /\ ~StreamsKept(r))
       => /\ r.resp \in {200, 201} /\ r.committed
          /\ r.kind = "create"
             => /\ r.pc = "done" /\ r.id \in DOMAIN orders
                /\ r.idx = Len(r.body.items) \/ r.failed
          /\ (r.kind # "create" /\ r.id \in DOMAIN orders) => orders[r.id].status = r.status
  /\ \A c \in Channels : \A i \in 1..Len(wrote[c]) :
       wrote[c][i].type = "order_cancelled"
       => /\ i > 1
          /\ wrote[c][i - 1] = Frame("order_status_updated", wrote[c][i].order_id, "cancelled")
  /\ \A c \in Channels : \A i \in 1..Len(recv[c]) :
       recv[c][i].type = "order_cancelled"
       => /\ i > 1
          /\ recv[c][i - 1] = Frame("order_status_updated", recv[c][i].order_id, "cancelled")

\* a subscriber received order_created and later, for a cancellation,
\* order_status_updated and order_cancelled
C30_Witness ==
  \E c \in Channels :
    /\ Len(recv[c]) = 4
    /\ recv[c][2].type = "order_created"
    /\ recv[c][3].type = "order_status_updated"
    /\ recv[c][4].type = "order_cancelled"

====
